---- MODULE Spec2Model ----
(***************************************************************************)
(* Collaborative to-do lists: rooms joined by invite code, tasks that are  *)
(* added / completed / edited / deleted and pushed to the other clients.   *)
(*                                                                         *)
(* The hosted backend is modelled by its tables (tasks, rooms,             *)
(* room_users), its row level security policies (schema.sql) and its       *)
(* change feed: one FIFO of notifications per subscribed client.  HTTP     *)
(* responses (fetches, write acknowledgements) travel independently of the *)
(* feed and may be overtaken by it.                                        *)
(*                                                                         *)
(* Strings are sequences of one-character strings.                         *)
(***************************************************************************)
EXTENDS Integers, Sequences, FiniteSets, TLC

VARIABLES
    dbTasks,        \* table tasks: set of rows
    nextTaskId,     \* next id / created_at the server hands out
    dbRooms,        \* table rooms: set of rows
    roomUsers,      \* table room_users: set of <<room_id, user_id>>
    nextRoomId,     \* next room id / created_at
    userId,         \* [client -> user]          MainLayout prop userId
    selectedRoomId, \* [client -> room id | 0]   MainLayout state; TodoList prop roomId
    rooms,          \* [client -> Seq(room row)] MainLayout state (sidebar)
    roomUi,         \* [client -> record]        MainLayout form state
    joinPend,       \* [client -> record]        handleJoinRoom between its awaits
    roomFetches,    \* [client -> set]           fetchMyRooms calls in flight
    activeTab,      \* [client -> tab]           TodoList state
    tasks,          \* [client -> Seq(task row)] TodoList state
    notifs,         \* [client -> Seq(payload)]  change feed of the client's channel
    fetches,        \* [client -> set]           fetchTasks calls in flight
    resps,          \* [client -> set]           TaskItem writes awaiting their callback
    session,        \* [client -> user or NoSession]  App state
    loading,        \* [client -> BOOLEAN]      App state
    auth,           \* [client -> record]       supabase.auth of the client's browser
    newTaskText,    \* [client -> string]       TodoList state
    addingTask,     \* [client -> BOOLEAN]      TodoList state
    pullProgress,   \* [client -> 0..80]        TodoList state
    isPulling,      \* [client -> BOOLEAN]      TodoList state
    touchStartRef,         \* [client -> Nat or NoTouch] TodoList ref
    isRefreshing,     \* [client -> BOOLEAN]      TodoList state
    scrollTop,      \* [client -> Nat]          scroll offset of the list container
    refreshTimers,  \* [client -> Nat]          setTimeout callbacks of fetchTasks not yet run
    ops,            \* number of user gestures so far
    retired,        \* invite codes replaced by a successful refresh (history)
    last            \* the step just taken (history, read by the properties only)

serverVars == <<dbTasks, nextTaskId, dbRooms, roomUsers, nextRoomId>>
roomVars   == <<rooms, roomUi, joinPend, roomFetches, retired>>
taskVars   == <<activeTab, tasks, notifs, fetches, resps>>
appVars    == <<session, loading, auth>>
addVars    == <<newTaskText, addingTask>>
pullVars   == <<pullProgress, isPulling, touchStartRef, isRefreshing, scrollTop,
               refreshTimers>>
vars == <<dbTasks, nextTaskId, dbRooms, roomUsers, nextRoomId, userId,
          selectedRoomId, rooms, roomUi, joinPend, roomFetches,
          activeTab, tasks, notifs, fetches, resps,
          session, loading, auth, newTaskText, addingTask,
          pullProgress, isPulling, touchStartRef, isRefreshing, scrollTop,
          refreshTimers, ops, retired, last>>

----------------------------------------------------------------------------
(* Bounds *)

MaxOps == 2          \* user gestures per behaviour of the task specification
MaxRoomOps == 2      \* user gestures per behaviour of the room specification
MaxAuthOps == 3      \* changes of the authentication state per behaviour
MaxTouches == 4      \* touch events per behaviour

Clients == {1, 2}
Users == {"u1", "u2"}
Tabs == {"active", "completed"}
TaskInputs == {<<" ", "c">>}
AddInputs == {<<>>, <<" ">>, <<" ", "c">>, <<"d", " ">>}
EditInputs == {<<"a">>, <<"b", " ">>}
JoinInputs == {<<"b">>, <<"a", "b">>, <<" ", "A", "B">>, <<"a", "_">>, <<"%">>, <<" ">>}
RawCodes == {<<"a", "b">>, <<"b", "a">>}     \* what the random generators yield
NameInputs == {<<"n">>, <<" ">>}

----------------------------------------------------------------------------
(* Strings *)

IsSpace(ch) == ch = " "

RECURSIVE TrimStart(_)
TrimStart(s) ==
    IF s = <<>> THEN <<>>
    ELSE IF IsSpace(Head(s)) THEN TrimStart(Tail(s)) ELSE s

RECURSIVE TrimEnd(_)
TrimEnd(s) ==
    IF s = <<>> THEN <<>>
    ELSE IF IsSpace(s[Len(s)]) THEN TrimEnd(SubSeq(s, 1, Len(s) - 1)) ELSE s

\* String.prototype.trim
Trim(s) == TrimEnd(TrimStart(s))

LowerChar(ch) == IF ch = "A" THEN "a" ELSE IF ch = "B" THEN "b" ELSE ch
UpperChar(ch) == IF ch = "a" THEN "A" ELSE IF ch = "b" THEN "B" ELSE ch

\* String.prototype.toUpperCase
ToUpperCase(s) == [i \in DOMAIN s |-> UpperChar(s[i])]
ToLowerCase(s) == [i \in DOMAIN s |-> LowerChar(s[i])]

\* value ILIKE pattern: % stands for any run of characters, _ for any one
\* character, every other character for itself whatever its case
RECURSIVE ILike(_, _)
ILike(value, pattern) ==
    IF pattern = <<>> THEN value = <<>>
    ELSE IF Head(pattern) = "%"
         THEN ILike(value, Tail(pattern))
              \/ (value # <<>> /\ ILike(Tail(value), pattern))
    ELSE IF Head(pattern) = "_"
         THEN value # <<>> /\ ILike(Tail(value), Tail(pattern))
    ELSE /\ value # <<>>
         /\ LowerChar(Head(value)) = LowerChar(Head(pattern))
         /\ ILike(Tail(value), Tail(pattern))

----------------------------------------------------------------------------
(* Rows and lists of rows *)

NoRoom == 0

Task(id, room, text, by, done) ==
    [id |-> id, room_id |-> room, text |-> text, created_by |-> by,
     is_completed |-> done, created_at |-> id]

\* payload.old of a DELETE: the primary key only
OldKey(id) ==
    [id |-> id, room_id |-> NoRoom, text |-> <<>>, created_by |-> "",
     is_completed |-> FALSE, created_at |-> 0]

NoTask == OldKey(0)

Ids(list) == {list[i].id : i \in DOMAIN list}

\* prev.filter(t => t.id !== id)
FilterOut(list, id) == SelectSeq(list, LAMBDA t : t.id # id)

\* prev.map(t => t.id === u.id ? u : t)
MapReplace(list, u) ==
    [i \in DOMAIN list |-> IF list[i].id = u.id THEN u ELSE list[i]]

\* Array.prototype.sort is stable: insertion of x after the last element
\* that does not compare greater.
RECURSIVE InsertAsc(_, _)
InsertAsc(sorted, x) ==
    IF sorted = <<>> THEN <<x>>
    ELSE IF sorted[Len(sorted)].created_at <= x.created_at
         THEN Append(sorted, x)
         ELSE Append(InsertAsc(SubSeq(sorted, 1, Len(sorted) - 1), x),
                     sorted[Len(sorted)])

RECURSIVE SortAsc(_)
SortAsc(list) ==
    IF list = <<>> THEN <<>>
    ELSE InsertAsc(SortAsc(SubSeq(list, 1, Len(list) - 1)), list[Len(list)])

RECURSIVE InsertDesc(_, _)
InsertDesc(sorted, x) ==
    IF sorted = <<>> THEN <<x>>
    ELSE IF sorted[Len(sorted)].created_at >= x.created_at
         THEN Append(sorted, x)
         ELSE Append(InsertDesc(SubSeq(sorted, 1, Len(sorted) - 1), x),
                     sorted[Len(sorted)])

RECURSIVE SortDesc(_)
SortDesc(list) ==
    IF list = <<>> THEN <<>>
    ELSE InsertDesc(SortDesc(SubSeq(list, 1, Len(list) - 1)), list[Len(list)])

\* a set of rows with distinct created_at, as a sequence in some order
RECURSIVE SetToSeq(_)
SetToSeq(S) ==
    IF S = {} THEN <<>>
    ELSE LET x == CHOOSE y \in S : TRUE IN <<x>> \o SetToSeq(S \ {x})

----------------------------------------------------------------------------
(* Server: table tasks *)

\* policy "Creator can delete tasks": USING (auth.uid() = created_by)
CreatorCanDeleteTask(uid, row) == uid = row.created_by

\* select * from tasks where room_id = .. and is_completed = ..
\* order by created_at, ascending unless the completed view is asked for
SelectTasks(room, tab) ==
    LET isCompletedView == tab = "completed"
        hit == {r \in dbTasks : r.room_id = room /\ r.is_completed = isCompletedView}
    IN IF isCompletedView THEN SortDesc(SetToSeq(hit)) ELSE SortAsc(SetToSeq(hit))

\* postgres_changes with filter room_id=eq.<roomId>: the event is appended to
\* the feed of every client whose open room is the row's room
Broadcast(type, row) ==
    [c \in Clients |->
        IF selectedRoomId[c] = row.room_id
        THEN Append(notifs[c], [eventType |-> type, row |-> row])
        ELSE notifs[c]]

\* DELETE events carry the old primary key only and reach every subscriber
BroadcastDelete(id) ==
    [c \in Clients |->
        IF selectedRoomId[c] # NoRoom
        THEN Append(notifs[c], [eventType |-> "DELETE", row |-> OldKey(id)])
        ELSE notifs[c]]

----------------------------------------------------------------------------
(* TodoList: the realtime handler *)

\* the handler as it would be if INSERT events were dropped on the active tab
OnInsertIgnoring(tab, prev, newTask) ==
    IF tab = "completed" /\ newTask.is_completed
    THEN SortDesc(<<newTask>> \o prev)
    ELSE prev

OnInsert(tab, prev, newTask) ==
    IF tab = "active" /\ ~newTask.is_completed
    THEN SortAsc(Append(prev, newTask))
    ELSE IF tab = "completed" /\ newTask.is_completed
    THEN SortDesc(<<newTask>> \o prev)
    ELSE prev

\* the handler as it would be if it replaced rows whatever the tab
OnUpdateReplacing(tab, prev, updatedTask) == MapReplace(prev, updatedTask)

OnUpdate(tab, prev, updatedTask) ==
    IF tab = "active"
    THEN IF updatedTask.is_completed
         THEN FilterOut(prev, updatedTask.id)
         ELSE MapReplace(prev, updatedTask)
    ELSE IF ~updatedTask.is_completed
         THEN FilterOut(prev, updatedTask.id)
         ELSE MapReplace(prev, updatedTask)

\* the handler as it would be if it dropped the first row with the id only
OnDeleteFirst(prev, deletedTask) ==
    IF \E i \in DOMAIN prev : prev[i].id = deletedTask.id
    THEN LET i == CHOOSE k \in DOMAIN prev :
                     /\ prev[k].id = deletedTask.id
                     /\ \A j \in 1..(k - 1) : prev[j].id # deletedTask.id
         IN SubSeq(prev, 1, i - 1) \o SubSeq(prev, i + 1, Len(prev))
    ELSE IF prev = <<>> THEN prev ELSE Tail(prev)

OnDelete(prev, deletedTask) == FilterOut(prev, deletedTask.id)

OnPayload(tab, prev, payload) ==
    IF payload.eventType = "INSERT" THEN OnInsert(tab, prev, payload.row)
    ELSE IF payload.eventType = "UPDATE" THEN OnUpdate(tab, prev, payload.row)
    ELSE OnDelete(prev, payload.row)

\* TaskItem callbacks handed down by TodoList
OnUpdated(prev, updatedTask) == MapReplace(prev, updatedTask)
OnDeleted(prev, taskId) == FilterOut(prev, taskId)

\* the owner test as it would be if it let everybody through
isOwnerAnyone(task, currentUserId) == TRUE

\* TaskItem: const isOwner = task.created_by === currentUserId
isOwner(task, currentUserId) == task.created_by = currentUserId

Step(op, c, row, before) == [op |-> op, c |-> c, row |-> row, before |-> before]

NoStep == Step("init", 0, NoTask, <<>>)

----------------------------------------------------------------------------
(* TodoList and TaskItem: the task specification *)

Room(id, name, code, by) ==
    [id |-> id, name |-> name, invite_code |-> code, created_by |-> by,
     created_at |-> id]

IdleUi ==
    [showCreate |-> FALSE, showJoin |-> FALSE, inputValue |-> <<>>,
     loading |-> FALSE, error |-> ""]
NoJoin == [active |-> FALSE, room |-> NoRoom, sel |-> NoRoom, input |-> <<>>, code |-> <<>>]

\* a fetchTasks call in flight.  The select is evaluated when the call is
\* made; its answer then travels for an arbitrary time, so that anything that
\* happens before the answer is applied may be missing from it.
Fetch(room, tab) == [room |-> room, tab |-> tab, data |-> SelectTasks(room, tab)]

\* session === null
NoSession == "none"

\* supabase.auth with the session it holds, the getSession() promises not yet
\* resolved and the events not yet delivered to the onAuthStateChange callback
AuthClient(current, promises, events) ==
    [current |-> current, getSession |-> promises, events |-> events]

\* App after its loading has finished for a signed-in user: MainLayout is shown
SignedIn ==
    /\ session = [c \in Clients |-> userId[c]]
    /\ loading = [c \in Clients |-> FALSE]
    /\ auth = [c \in Clients |-> AuthClient(userId[c], {}, <<>>)]

\* touchStartRef.current === null
NoTouch == -1

\* the add form and the pull gesture of a TodoList that has just mounted
TodoListIdle ==
    /\ newTaskText = [c \in Clients |-> <<>>]
    /\ addingTask = [c \in Clients |-> FALSE]
    /\ pullProgress = [c \in Clients |-> 0]
    /\ isPulling = [c \in Clients |-> FALSE]
    /\ touchStartRef = [c \in Clients |-> NoTouch]
    /\ isRefreshing = [c \in Clients |-> FALSE]
    /\ scrollTop = [c \in Clients |-> 0]
    /\ refreshTimers = [c \in Clients |-> 0]

InitTasks ==
    /\ dbTasks = {Task(1, 1, <<"a">>, "u1", FALSE), Task(2, 1, <<"b">>, "u2", FALSE)}
    /\ nextTaskId = 3
    /\ dbRooms = {Room(1, <<"x">>, <<"a", "b">>, "u1"), Room(2, <<"y">>, <<"b", "a">>, "u2")}
    /\ roomUsers = {<<1, "u1">>, <<2, "u2">>}
    /\ nextRoomId = 3
    /\ \E u \in Users, r \in {1, 2} :
          /\ (u = "u1" => r = 1)
          /\ userId = [c \in Clients |-> IF c = 1 THEN "u1" ELSE u]
          /\ selectedRoomId = [c \in Clients |-> IF c = 1 THEN 1 ELSE r]
    /\ rooms = [c \in Clients |-> SortDesc(SetToSeq(dbRooms))]
    /\ roomUi = [c \in Clients |-> IdleUi]
    /\ joinPend = [c \in Clients |-> NoJoin]
    /\ roomFetches = [c \in Clients |-> {}]
    /\ activeTab = [c \in Clients |-> "active"]
    /\ tasks = [c \in Clients |-> <<>>]
    /\ notifs = [c \in Clients |-> <<>>]
    \* both mount effects call fetchTasks
    /\ fetches = [c \in Clients |->
                    {[room |-> selectedRoomId[c], tab |-> "active",
                      data |-> SortAsc(SetToSeq({r \in dbTasks : r.room_id = selectedRoomId[c]
                                                                 /\ ~r.is_completed}))]}]
    /\ resps = [c \in Clients |-> {}]
    /\ SignedIn
    /\ TodoListIdle
    /\ ops = 0
    /\ retired = {}
    /\ last = NoStep

\* the end of handleAddTask as it would be if it cleared the input whatever
\* the outcome
AddReturnedClearing(text, error) == [newTaskText |-> <<>>, addingTask |-> FALSE]

\* the end of handleAddTask: if (!error) setNewTaskText(''); setAddingTask(false)
AddReturned(text, error) ==
    [newTaskText |-> IF error THEN text ELSE <<>>, addingTask |-> FALSE]

\* handleAddTask on the text the user has typed into the form, which is
\* rendered on the 'active' tab only and disabled while addingTask; failed is
\* the outcome of the insert (an error of the transport or the server)
handleAddTask(c, typed, failed) ==
    /\ ops < MaxOps
    /\ activeTab[c] = "active"
    /\ ~addingTask[c]
    /\ ops' = ops + 1
    /\ LET row == Task(nextTaskId, selectedRoomId[c], Trim(typed), userId[c], FALSE)
           end == AddReturned(typed, failed)
       IN IF Trim(typed) = <<>>
          THEN \* if (!newTaskText.trim()) return;
               /\ newTaskText' = [newTaskText EXCEPT ![c] = typed]
               /\ last' = Step("handleAddTaskEmpty", c, NoTask, typed)
               /\ UNCHANGED <<dbTasks, nextTaskId, notifs, addingTask>>
          ELSE /\ newTaskText' = [newTaskText EXCEPT ![c] = end.newTaskText]
               /\ addingTask' = [addingTask EXCEPT ![c] = end.addingTask]
               /\ IF failed
                  THEN /\ last' = Step("handleAddTaskFailed", c, row, typed)
                       /\ UNCHANGED <<dbTasks, nextTaskId, notifs>>
                  ELSE /\ dbTasks' = dbTasks \cup {row}
                       /\ nextTaskId' = nextTaskId + 1
                       /\ notifs' = Broadcast("INSERT", row)
                       /\ last' = Step("handleAddTask", c, row, typed)
    /\ UNCHANGED <<dbRooms, roomUsers, nextRoomId, userId, appVars, pullVars,
                   selectedRoomId, roomVars, activeTab, tasks, fetches, resps>>

\* TaskItem.handleToggleComplete: the button exists on rows not yet completed
handleToggleComplete(c, i) ==
    /\ ops < MaxOps
    /\ i \in DOMAIN tasks[c]
    /\ LET task == tasks[c][i]
           Set(r) == [r EXCEPT !.is_completed = ~task.is_completed]
       IN /\ ~task.is_completed
          /\ dbTasks' = {IF r.id = task.id THEN Set(r) ELSE r : r \in dbTasks}
          /\ notifs' = IF \E r \in dbTasks : r.id = task.id
                       THEN Broadcast("UPDATE", Set(CHOOSE r \in dbTasks : r.id = task.id))
                       ELSE notifs
          /\ resps' = [resps EXCEPT ![c] = @ \cup {[kind |-> "updated", row |-> Set(task)]}]
          /\ last' = Step("handleToggleComplete", c, task, tasks[c])
    /\ ops' = ops + 1
    /\ UNCHANGED <<nextTaskId, dbRooms, roomUsers, nextRoomId, userId, appVars, addVars,
                   pullVars, selectedRoomId,
                   roomVars, activeTab, tasks, fetches>>

\* TaskItem.handleUpdate: edit is offered to the owner on rows not completed
handleUpdate(c, i, editValue) ==
    /\ ops < MaxOps
    /\ i \in DOMAIN tasks[c]
    /\ LET task == tasks[c][i]
           Set(r) == [r EXCEPT !.text = Trim(editValue)]
       IN /\ isOwner(task, userId[c])
          /\ ~task.is_completed
          /\ ~(Trim(editValue) = <<>> \/ editValue = task.text)
          /\ dbTasks' = {IF r.id = task.id THEN Set(r) ELSE r : r \in dbTasks}
          /\ notifs' = IF \E r \in dbTasks : r.id = task.id
                       THEN Broadcast("UPDATE", Set(CHOOSE r \in dbTasks : r.id = task.id))
                       ELSE notifs
          /\ resps' = [resps EXCEPT ![c] = @ \cup {[kind |-> "updated", row |-> Set(task)]}]
          /\ last' = Step("handleUpdate", c, task, tasks[c])
    /\ ops' = ops + 1
    /\ UNCHANGED <<nextTaskId, dbRooms, roomUsers, nextRoomId, userId, appVars, addVars,
                   pullVars, selectedRoomId,
                   roomVars, activeTab, tasks, fetches>>

\* TaskItem.handleDelete: the button is rendered for the owner only; the
\* server deletes the rows the policy lets the caller see, without an error
handleDelete(c, i, confirmed) ==
    /\ ops < MaxOps
    /\ i \in DOMAIN tasks[c]
    /\ LET task == tasks[c][i]
           gone == {r \in dbTasks : r.id = task.id /\ CreatorCanDeleteTask(userId[c], r)}
       IN /\ isOwner(task, userId[c])
          /\ confirmed
          /\ dbTasks' = dbTasks \ gone
          /\ notifs' = IF gone # {} THEN BroadcastDelete(task.id) ELSE notifs
          /\ resps' = [resps EXCEPT ![c] = @ \cup {[kind |-> "deleted", row |-> task]}]
          /\ last' = Step("handleDelete", c, task, tasks[c])
    /\ ops' = ops + 1
    /\ UNCHANGED <<nextTaskId, dbRooms, roomUsers, nextRoomId, userId, appVars, addVars,
                   pullVars, selectedRoomId,
                   roomVars, activeTab, tasks, fetches>>

\* setActiveTab: both effects re-run; the old channel is removed, a new one
\* subscribed, and fetchTasks is called for the new tab
setActiveTab(c, tab) ==
    /\ ops < MaxOps
    /\ tab # activeTab[c]
    /\ activeTab' = [activeTab EXCEPT ![c] = tab]
    /\ notifs' = [notifs EXCEPT ![c] = <<>>]
    /\ fetches' = [fetches EXCEPT ![c] = @ \cup {Fetch(selectedRoomId[c], tab)}]
    /\ last' = Step("setActiveTab", c, NoTask, tasks[c])
    /\ ops' = ops + 1
    /\ UNCHANGED <<serverVars, userId, appVars, addVars, pullVars, selectedRoomId, roomVars,
                   tasks, resps>>

\* fetchTasks(true), called by the pull gesture
ManualFetch(room, tab) ==
    [room |-> room, tab |-> tab, data |-> SelectTasks(room, tab), isManualRefresh |-> TRUE]

isManualRefresh(f) == "isManualRefresh" \in DOMAIN f

\* fetchTasks after its await: setTasks(data); after a manual refresh
\* setTimeout(() => setIsRefreshing(false), 500)
fetchTasks(c, f) ==
    /\ f \in fetches[c]
    /\ fetches' = [fetches EXCEPT ![c] = @ \ {f}]
    /\ tasks' = [tasks EXCEPT ![c] = f.data]
    /\ refreshTimers' = [refreshTimers EXCEPT ![c] = IF isManualRefresh(f) THEN @ + 1 ELSE @]
    /\ last' = Step("fetchTasks", c, NoTask, tasks[c])
    /\ UNCHANGED <<serverVars, userId, appVars, addVars, pullProgress, isPulling,
                   touchStartRef, isRefreshing, scrollTop, selectedRoomId, roomVars,
                   activeTab, notifs, resps, ops>>

\* the channel callback runs on the oldest undelivered event
Notify(c) ==
    /\ notifs[c] # <<>>
    /\ LET payload == Head(notifs[c])
       IN /\ tasks' = [tasks EXCEPT ![c] = OnPayload(activeTab[c], @, payload)]
          /\ last' = Step(payload.eventType, c, payload.row, tasks[c])
    /\ notifs' = [notifs EXCEPT ![c] = Tail(@)]
    /\ UNCHANGED <<serverVars, userId, appVars, addVars, pullVars, selectedRoomId, roomVars,
                   activeTab, fetches,
                   resps, ops>>

\* a TaskItem write returns without error: onUpdated / onDeleted
WriteReturn(c, r) ==
    /\ r \in resps[c]
    /\ resps' = [resps EXCEPT ![c] = @ \ {r}]
    /\ tasks' = [tasks EXCEPT ![c] =
                    IF r.kind = "updated" THEN OnUpdated(@, r.row) ELSE OnDeleted(@, r.row.id)]
    /\ last' = Step(IF r.kind = "updated" THEN "onUpdated" ELSE "onDeleted", c, r.row, tasks[c])
    /\ UNCHANGED <<serverVars, userId, appVars, addVars, pullVars, selectedRoomId, roomVars,
                   activeTab, notifs,
                   fetches, ops>>

NextTasks ==
    \/ \E c \in Clients, s \in TaskInputs : handleAddTask(c, s, FALSE)
    \/ \E c \in Clients, i \in 1..MaxOps : handleToggleComplete(c, i)
    \/ \E c \in Clients, i \in 1..MaxOps, s \in EditInputs : handleUpdate(c, i, s)
    \/ \E c \in Clients, i \in 1..MaxOps, b \in BOOLEAN : handleDelete(c, i, b)
    \/ \E c \in Clients, t \in Tabs : setActiveTab(c, t)
    \/ \E c \in Clients : \E f \in fetches[c] : fetchTasks(c, f)
    \/ \E c \in Clients : Notify(c)
    \/ \E c \in Clients : \E r \in resps[c] : WriteReturn(c, r)

Spec == InitTasks /\ [][NextTasks]_vars

----------------------------------------------------------------------------
(* MainLayout and the TodoList settings: the room specification *)

\* policy "Creator can manage their rooms": FOR ALL USING (auth.uid() = created_by)
CreatorCanManage(uid, row) == uid = row.created_by

\* policy "Auth users can read rooms": USING (true);
\* select * from rooms order by created_at desc
SelectRooms(table) == SortDesc(SetToSeq(table))

\* a fetchMyRooms call in flight: the selectedRoomId its closure saw, and the
\* rows the server answered with
RoomsFetch(sel, table) == [sel |-> sel, data |-> SelectRooms(table)]

\* the effect on [fetchProfile, fetchMyRooms]: fetchMyRooms is re-created,
\* and called again, whenever selectedRoomId changes
EffectFetches(c, newSel, table) ==
    IF newSel # selectedRoomId[c] THEN {RoomsFetch(newSel, table)} ELSE {}

\* const selectedRoom = rooms.find(r => r.id === selectedRoomId);
\* TodoList is rendered when selectedRoomId && selectedRoom
HasSelectedRoom(c) ==
    /\ selectedRoomId[c] # NoRoom
    /\ \E i \in DOMAIN rooms[c] : rooms[c][i].id = selectedRoomId[c]

selectedRoom(c) ==
    rooms[c][CHOOSE i \in DOMAIN rooms[c] :
                /\ rooms[c][i].id = selectedRoomId[c]
                /\ \A j \in 1..(i - 1) : rooms[c][j].id # selectedRoomId[c]]

\* the creator test as it would be if it let everybody through
isCreatorAnyone(room, uid) == TRUE

\* isCreator={selectedRoom.created_by === userId}
isCreator(room, uid) == room.created_by = uid

RoomStep(op, c, room, input, code, before) ==
    [op |-> op, c |-> c, row |-> [id |-> room, input |-> input, code |-> code],
     before |-> before]

\* {selectedRoomId && selectedRoom ? <TodoList roomId={selectedRoomId} .../> : ...}
Rendered(sel, list) ==
    sel # NoRoom /\ \E i \in DOMAIN list : list[i].id = sel

\* TodoList of client c after MainLayout has rendered with a new selection or
\* a new rooms list.  There is no key on the element: while it stays rendered
\* its state is kept, and a new roomId re-runs the effects (the channel is
\* replaced, fetchTasks is called for the new room).  When it is no longer
\* rendered it unmounts, which drops its state and its outstanding answers;
\* when it is rendered again it mounts with its initial state.
TodoListAfter(c, newSel, newRooms) ==
    LET was == Rendered(selectedRoomId[c], rooms[c])
        is == Rendered(newSel, newRooms)
    IN IF ~is
       THEN [activeTab |-> "active", tasks |-> <<>>, notifs |-> <<>>, fetches |-> {}]
       ELSE IF ~was
       THEN [activeTab |-> "active", tasks |-> <<>>, notifs |-> <<>>,
             fetches |-> {Fetch(newSel, "active")}]
       ELSE IF newSel # selectedRoomId[c]
       THEN [activeTab |-> activeTab[c], tasks |-> tasks[c], notifs |-> <<>>,
             fetches |-> fetches[c] \cup {Fetch(newSel, activeTab[c])}]
       ELSE [activeTab |-> activeTab[c], tasks |-> tasks[c], notifs |-> notifs[c],
             fetches |-> fetches[c]]

RenderTodoList(c, newSel, newRooms) ==
    LET next == TodoListAfter(c, newSel, newRooms)
    IN /\ activeTab' = [activeTab EXCEPT ![c] = next.activeTab]
       /\ tasks' = [tasks EXCEPT ![c] = next.tasks]
       /\ notifs' = [notifs EXCEPT ![c] = next.notifs]
       /\ fetches' = [fetches EXCEPT ![c] = next.fetches]

InitRooms ==
    /\ dbTasks = {Task(1, 2, <<"a">>, "u1", FALSE)}
    /\ nextTaskId = 2
    /\ dbRooms = {Room(1, <<"y">>, <<"b", "a">>, "u2"), Room(2, <<"x">>, <<"a", "b">>, "u1")}
    /\ roomUsers = {<<1, "u2">>, <<2, "u1">>}
    /\ nextRoomId = 3
    /\ userId = [c \in Clients |-> IF c = 1 THEN "u1" ELSE "u2"]
    /\ selectedRoomId = [c \in Clients |-> NoRoom]
    /\ rooms = [c \in Clients |-> <<>>]
    /\ roomUi = [c \in Clients |-> IdleUi]
    /\ joinPend = [c \in Clients |-> NoJoin]
    \* the mount effect calls fetchMyRooms
    /\ roomFetches = [c \in Clients |-> {[sel |-> NoRoom, data |-> SortDesc(SetToSeq(dbRooms))]}]
    /\ activeTab = [c \in Clients |-> "active"]
    /\ tasks = [c \in Clients |-> <<>>]
    /\ notifs = [c \in Clients |-> <<>>]
    /\ fetches = [c \in Clients |-> {}]
    /\ resps = [c \in Clients |-> {}]
    /\ SignedIn
    /\ TodoListIdle
    /\ ops = 0
    /\ retired = {}
    /\ last = NoStep

\* the catch and finally blocks of handleJoinRoom as they would be without
\* the finally block
JoinFailedStillLoading(ui, message) == [ui EXCEPT !.error = message]

\* the catch and finally blocks of handleJoinRoom:
\* setError(err.message); setLoading(false)
JoinFailed(ui, message) == [ui EXCEPT !.error = message, !.loading = FALSE]

\* the "Join via Code" button
OpenJoin(c) ==
    /\ ~roomUi[c].showCreate /\ ~roomUi[c].showJoin
    /\ roomUi' = [roomUi EXCEPT ![c] =
                    [@ EXCEPT !.showJoin = TRUE, !.showCreate = FALSE,
                              !.inputValue = <<>>, !.error = ""]]
    /\ last' = RoomStep("OpenJoin", c, NoRoom, <<>>, <<>>, roomUsers)
    /\ UNCHANGED <<serverVars, userId, appVars, addVars, pullVars, selectedRoomId, rooms,
                   joinPend, roomFetches,
                   retired, taskVars, ops>>

\* handleJoinRoom up to the answer of its first await:
\* select id from rooms where invite_code ilike <trimmed input>, .single()
handleJoinRoom(c, typed) ==
    /\ ops < MaxRoomOps
    /\ roomUi[c].showJoin /\ ~roomUi[c].showCreate /\ ~roomUi[c].loading
    /\ ops' = ops + 1
    /\ LET hit == {r \in dbRooms : ILike(r.invite_code, Trim(typed))}
       IN IF Trim(typed) = <<>>
          THEN /\ roomUi' = [roomUi EXCEPT ![c].inputValue = typed]
               /\ last' = RoomStep("handleJoinRoomEmpty", c, NoRoom, typed, <<>>, roomUsers)
               /\ UNCHANGED joinPend
          ELSE IF Cardinality(hit) # 1
          THEN /\ roomUi' = [roomUi EXCEPT ![c] =
                               JoinFailed([@ EXCEPT !.inputValue = typed, !.loading = TRUE,
                                                    !.error = ""],
                                          "Invalid Invite Code.")]
               /\ last' = RoomStep("handleJoinRoomInvalid", c, NoRoom, typed, <<>>, roomUsers)
               /\ UNCHANGED joinPend
          ELSE LET roomData == CHOOSE r \in hit : TRUE
               IN /\ roomUi' = [roomUi EXCEPT ![c] =
                                  [@ EXCEPT !.inputValue = typed, !.loading = TRUE,
                                            !.error = ""]]
                  /\ joinPend' = [joinPend EXCEPT ![c] =
                                    [active |-> TRUE, room |-> roomData.id,
                                     sel |-> selectedRoomId[c],
                                     input |-> Trim(typed), code |-> roomData.invite_code]]
                  /\ last' = RoomStep("handleJoinRoomFound", c, roomData.id, Trim(typed),
                                      roomData.invite_code, roomUsers)
    /\ UNCHANGED <<serverVars, userId, appVars, addVars, pullVars, selectedRoomId, rooms,
                   roomFetches, retired, taskVars>>

\* the error of the insert into room_users: a foreign key violation when the
\* room has gone meanwhile, a unique violation when the membership exists
JoinError(id, uid) ==
    IF ~(\E r \in dbRooms : r.id = id) THEN "23503"
    ELSE IF <<id, uid>> \in roomUsers THEN "23505"
    ELSE ""

\* the test on joinError as it would be if the conflict were not ignored
ThrownAlways(joinError) == joinError # ""

\* if (joinError && joinError.code !== '23505') throw joinError;
Thrown(joinError) == joinError # "" /\ joinError # "23505"

\* handleJoinRoom from its second await on: insert into room_users, where the
\* conflict on an existing membership (23505) is ignored
JoinInsert(c) ==
    /\ joinPend[c].active
    /\ joinPend' = [joinPend EXCEPT ![c] = NoJoin]
    /\ LET id == joinPend[c].room
           joinError == JoinError(id, userId[c])
       IN IF Thrown(joinError)
          THEN /\ roomUi' = [roomUi EXCEPT ![c] = JoinFailed(@, joinError)]
               /\ last' = RoomStep("JoinInsertFailed", c, id, joinPend[c].input,
                                   joinPend[c].code, roomUsers)
               /\ UNCHANGED <<roomUsers, selectedRoomId, roomFetches, activeTab, tasks,
                              notifs, fetches>>
          ELSE /\ roomUsers' = IF joinError = "" THEN roomUsers \cup {<<id, userId[c]>>}
                                ELSE roomUsers
               /\ roomUi' = [roomUi EXCEPT ![c] =
                               [@ EXCEPT !.inputValue = <<>>, !.showJoin = FALSE,
                                         !.loading = FALSE]]
               /\ roomFetches' = [roomFetches EXCEPT ![c] =
                                    @ \cup {RoomsFetch(joinPend[c].sel, dbRooms)}
                                      \cup EffectFetches(c, id, dbRooms)]
               /\ selectedRoomId' = [selectedRoomId EXCEPT ![c] = id]
               /\ RenderTodoList(c, id, rooms[c])
               /\ last' = RoomStep("JoinInsert", c, id, joinPend[c].input,
                                   joinPend[c].code, roomUsers)
    /\ UNCHANGED <<dbTasks, nextTaskId, dbRooms, nextRoomId, userId, appVars, addVars,
                   pullVars, rooms, retired, resps, ops>>

\* a click on a list of the sidebar
selectRoom(c, i) ==
    /\ ops < MaxRoomOps
    /\ i \in DOMAIN rooms[c]
    /\ rooms[c][i].id # selectedRoomId[c]
    /\ selectedRoomId' = [selectedRoomId EXCEPT ![c] = rooms[c][i].id]
    /\ roomFetches' = [roomFetches EXCEPT ![c] =
                         @ \cup EffectFetches(c, rooms[c][i].id, dbRooms)]
    /\ ops' = ops + 1
    /\ RenderTodoList(c, rooms[c][i].id, rooms[c])
    /\ last' = RoomStep("selectRoom", c, rooms[c][i].id, <<>>, <<>>, roomUsers)
    /\ UNCHANGED <<serverVars, userId, appVars, addVars, pullVars, rooms, roomUi, joinPend,
                   retired, resps>>

\* fetchMyRooms after its await
fetchMyRooms(c, f) ==
    /\ f \in roomFetches[c]
    /\ rooms' = [rooms EXCEPT ![c] = f.data]
    /\ LET newSel == IF f.sel = NoRoom /\ Len(f.data) > 0
                     THEN f.data[1].id ELSE selectedRoomId[c]
       IN /\ selectedRoomId' = [selectedRoomId EXCEPT ![c] = newSel]
          /\ roomFetches' = [roomFetches EXCEPT ![c] =
                               (@ \ {f}) \cup EffectFetches(c, newSel, dbRooms)]
          /\ RenderTodoList(c, newSel, f.data)
    /\ last' = RoomStep("fetchMyRooms", c, NoRoom, <<>>, <<>>, roomUsers)
    /\ UNCHANGED <<serverVars, userId, appVars, addVars, pullVars, roomUi, joinPend, retired,
                   resps, ops>>

\* TodoList.handleRefreshCode: raw is what Math.random().toString(36) yields
handleRefreshCode(c, raw, confirmed) ==
    /\ ops < MaxRoomOps
    /\ HasSelectedRoom(c)
    /\ isCreator(selectedRoom(c), userId[c])
    /\ confirmed
    /\ ops' = ops + 1
    /\ LET roomId == selectedRoomId[c]
           newCode == ToUpperCase(raw)
           mine == {r \in dbRooms : r.id = roomId /\ CreatorCanManage(userId[c], r)}
           table == (dbRooms \ mine) \cup {[r EXCEPT !.invite_code = newCode] : r \in mine}
       IN IF mine # {} /\ \E r \in dbRooms \ mine : r.invite_code = newCode
          THEN \* unique violation: alert("Failed to refresh code: ...")
               /\ last' = RoomStep("handleRefreshCodeFailed", c, roomId, <<>>, newCode, roomUsers)
               /\ UNCHANGED <<dbRooms, roomFetches, retired>>
          ELSE /\ dbRooms' = table
               /\ retired' = retired \cup {r.invite_code : r \in mine}
               /\ roomFetches' = [roomFetches EXCEPT ![c] = @ \cup {RoomsFetch(roomId, table)}]
               /\ last' = RoomStep("handleRefreshCode", c, roomId, <<>>, newCode, roomUsers)
    /\ UNCHANGED <<dbTasks, nextTaskId, roomUsers, nextRoomId, userId, appVars, addVars,
                   pullVars, selectedRoomId,
                   rooms, roomUi, joinPend, taskVars>>

\* "Rename List": prompt, then onRenameList -> handleUpdateRoom(selectedRoomId, name)
renameList(c, typed) ==
    /\ ops < MaxRoomOps
    /\ HasSelectedRoom(c)
    /\ isCreator(selectedRoom(c), userId[c])
    /\ typed # <<>>
    /\ ops' = ops + 1
    /\ LET roomId == selectedRoomId[c]
           nameToUse == Trim(typed)
           mine == {r \in dbRooms : r.id = roomId /\ CreatorCanManage(userId[c], r)}
           table == (dbRooms \ mine) \cup {[r EXCEPT !.name = nameToUse] : r \in mine}
       IN IF nameToUse = <<>>
          THEN /\ last' = RoomStep("renameListEmpty", c, roomId, typed, <<>>, roomUsers)
               /\ UNCHANGED <<dbRooms, roomFetches>>
          ELSE /\ dbRooms' = table
               /\ roomFetches' = [roomFetches EXCEPT ![c] = @ \cup {RoomsFetch(roomId, table)}]
               /\ last' = RoomStep("renameList", c, roomId, typed, <<>>, roomUsers)
    /\ UNCHANGED <<dbTasks, nextTaskId, roomUsers, nextRoomId, userId, appVars, addVars,
                   pullVars, selectedRoomId,
                   rooms, roomUi, joinPend, retired, taskVars>>

\* the answer to window.confirm as it would be if every answer counted as OK
confirmAlways(answer) == TRUE

\* window.confirm(...): true exactly when the user pressed OK
confirm(answer) == answer

Answers(confirmed, confirmedAgain) ==
    <<IF confirmed THEN "ok" ELSE "cancel", IF confirmedAgain THEN "ok" ELSE "cancel">>

\* "Delete List": confirm, onDeleteList -> handleDeleteRoom(selectedRoomId),
\* which confirms once more; failed is the outcome of the request (an error
\* of the transport or the server); tasks.room_id is ON DELETE CASCADE
deleteList(c, confirmed, confirmedAgain, failed) ==
    /\ ops < MaxRoomOps
    /\ HasSelectedRoom(c)
    /\ isCreator(selectedRoom(c), userId[c])
    /\ ops' = ops + 1
    /\ LET roomId == selectedRoomId[c]
           mine == {r \in dbRooms : r.id = roomId /\ CreatorCanManage(userId[c], r)}
           table == dbRooms \ mine
           gone == {r.id : r \in mine}
           answers == Answers(confirmed, confirmedAgain)
       IN IF ~confirm(confirmed) \/ ~confirm(confirmedAgain)
          THEN /\ last' = RoomStep("deleteListDeclined", c, roomId, answers, <<>>, roomUsers)
               /\ UNCHANGED <<dbRooms, dbTasks, roomUsers, selectedRoomId, roomFetches,
                              activeTab, tasks, notifs, fetches>>
          ELSE IF failed
          THEN \* if (error) throw error; the catch only logs
               /\ last' = RoomStep("deleteListFailed", c, roomId, answers, <<>>, roomUsers)
               /\ UNCHANGED <<dbRooms, dbTasks, roomUsers, selectedRoomId, roomFetches,
                              activeTab, tasks, notifs, fetches>>
          ELSE /\ dbRooms' = table
               /\ dbTasks' = {t \in dbTasks : t.room_id \notin gone}
               /\ roomUsers' = {m \in roomUsers : m[1] \notin gone}
               /\ selectedRoomId' = [selectedRoomId EXCEPT ![c] = NoRoom]
               /\ roomFetches' = [roomFetches EXCEPT ![c] =
                                    @ \cup {RoomsFetch(roomId, table)}
                                      \cup EffectFetches(c, NoRoom, table)]
               /\ RenderTodoList(c, NoRoom, rooms[c])
               /\ last' = RoomStep("deleteList", c, roomId, answers, <<>>, roomUsers)
    /\ UNCHANGED <<nextTaskId, nextRoomId, userId, appVars, addVars, pullVars, rooms, roomUi,
                   joinPend, retired, resps>>

NextRooms ==
    \/ \E c \in Clients : OpenJoin(c)
    \/ \E c \in Clients, s \in JoinInputs : handleJoinRoom(c, s)
    \/ \E c \in Clients : JoinInsert(c)
    \/ \E c \in Clients, i \in 1..(1 + MaxRoomOps) : selectRoom(c, i)
    \/ \E c \in Clients : \E f \in roomFetches[c] : fetchMyRooms(c, f)
    \/ \E c \in Clients, raw \in RawCodes, b \in BOOLEAN : handleRefreshCode(c, raw, b)
    \/ \E c \in Clients, s \in NameInputs : renameList(c, s)
    \/ \E c \in Clients, b1 \in BOOLEAN, b2 \in BOOLEAN, failed \in BOOLEAN :
            deleteList(c, b1, b2, failed)

SpecRooms == InitRooms /\ [][NextRooms]_vars

\* the settings of a list: selecting it, then refresh, rename and delete
NextManage ==
    \/ \E c \in Clients, i \in 1..2 : selectRoom(c, i)
    \/ \E c \in Clients : \E f \in roomFetches[c] : fetchMyRooms(c, f)
    \/ \E c \in Clients, raw \in RawCodes, b \in BOOLEAN : handleRefreshCode(c, raw, b)
    \/ \E c \in Clients, s \in NameInputs : renameList(c, s)
    \/ \E c \in Clients, b1 \in BOOLEAN, b2 \in BOOLEAN, failed \in BOOLEAN :
            deleteList(c, b1, b2, failed)

SpecManage == InitRooms /\ [][NextManage]_vars

\* the join form, while lists are selected and their creators delete them
NextJoin ==
    \/ \E c \in Clients : OpenJoin(c)
    \/ \E c \in Clients, s \in JoinInputs : handleJoinRoom(c, s)
    \/ \E c \in Clients : JoinInsert(c)
    \/ \E c \in Clients, i \in 1..2 : selectRoom(c, i)
    \/ \E c \in Clients : \E f \in roomFetches[c] : fetchMyRooms(c, f)
    \/ \E c \in Clients : deleteList(c, TRUE, TRUE, FALSE)

SpecJoin == InitRooms /\ [][NextJoin]_vars

----------------------------------------------------------------------------
(* TodoList: the pull-to-refresh gesture *)

ClientYs == {0, 50, 210, 300}   \* e.touches[0].clientY
ScrollTops == {0, 1}             \* scrollRef.current.scrollTop

TouchStep(op, c, clientY) ==
    [op |-> op, c |-> c, row |-> [clientY |-> clientY], before |-> <<>>]

\* !touchStartRef.current, on a ref that holds null or a number
NoTouchStart(ref) == ref = NoTouch \/ ref = 0

\* Math.min(distance * 0.4, 80), on distances that are multiples of 5
Progress(distance) ==
    LET stretched == (distance * 2) \div 5
    IN IF stretched < 80 THEN stretched ELSE 80

\* the list container is scrolled by the user
scroll(c, top) ==
    /\ top # scrollTop[c]
    /\ scrollTop' = [scrollTop EXCEPT ![c] = top]
    /\ last' = TouchStep("scroll", c, top)
    /\ UNCHANGED <<serverVars, userId, selectedRoomId, roomVars, taskVars, appVars, addVars,
                   pullProgress, isPulling, touchStartRef, isRefreshing, refreshTimers, ops>>

handleTouchStart(c, clientY) ==
    /\ ops < MaxTouches
    /\ ops' = ops + 1
    /\ touchStartRef' = [touchStartRef EXCEPT ![c] = IF scrollTop[c] = 0 THEN clientY ELSE @]
    /\ last' = TouchStep("handleTouchStart", c, clientY)
    /\ UNCHANGED <<serverVars, userId, selectedRoomId, roomVars, taskVars, appVars, addVars,
                   pullProgress, isPulling, isRefreshing, scrollTop, refreshTimers>>

handleTouchMove(c, touchCurrent) ==
    /\ ops < MaxTouches
    /\ ops' = ops + 1
    /\ LET distance == touchCurrent - touchStartRef[c]
       IN IF NoTouchStart(touchStartRef[c]) \/ isRefreshing[c]
          THEN UNCHANGED <<isPulling, pullProgress>>
          ELSE IF distance > 0 /\ scrollTop[c] = 0
          THEN /\ isPulling' = [isPulling EXCEPT ![c] = TRUE]
               /\ pullProgress' = [pullProgress EXCEPT ![c] = Progress(distance)]
          ELSE UNCHANGED <<isPulling, pullProgress>>
    /\ last' = TouchStep("handleTouchMove", c, touchCurrent)
    /\ UNCHANGED <<serverVars, userId, selectedRoomId, roomVars, taskVars, appVars, addVars,
                   touchStartRef, isRefreshing, scrollTop, refreshTimers>>

handleTouchEnd(c) ==
    /\ ops < MaxTouches
    /\ ops' = ops + 1
    /\ IF NoTouchStart(touchStartRef[c])
       THEN UNCHANGED <<touchStartRef, isPulling, pullProgress, isRefreshing, fetches>>
       ELSE /\ IF pullProgress[c] > 60
               THEN \* fetchTasks(true): setIsRefreshing(true), then the select
                    /\ isRefreshing' = [isRefreshing EXCEPT ![c] = TRUE]
                    /\ fetches' = [fetches EXCEPT ![c] =
                                     @ \cup {ManualFetch(selectedRoomId[c], activeTab[c])}]
               ELSE UNCHANGED <<isRefreshing, fetches>>
            /\ touchStartRef' = [touchStartRef EXCEPT ![c] = NoTouch]
            /\ isPulling' = [isPulling EXCEPT ![c] = FALSE]
            /\ pullProgress' = [pullProgress EXCEPT ![c] = 0]
    /\ last' = TouchStep("handleTouchEnd", c, 0)
    /\ UNCHANGED <<serverVars, userId, selectedRoomId, roomVars, activeTab, tasks, notifs,
                   resps, appVars, addVars, scrollTop, refreshTimers>>

\* the callback of setTimeout(() => setIsRefreshing(false), 500)
refreshTimeout(c) ==
    /\ refreshTimers[c] > 0
    /\ refreshTimers' = [refreshTimers EXCEPT ![c] = @ - 1]
    /\ isRefreshing' = [isRefreshing EXCEPT ![c] = FALSE]
    /\ last' = TouchStep("refreshTimeout", c, 0)
    /\ UNCHANGED <<serverVars, userId, selectedRoomId, roomVars, taskVars, appVars, addVars,
                   pullProgress, isPulling, touchStartRef, scrollTop, ops>>

NextPull ==
    \/ \E c \in Clients, top \in ScrollTops : scroll(c, top)
    \/ \E c \in Clients, y \in ClientYs : handleTouchStart(c, y)
    \/ \E c \in Clients, y \in ClientYs : handleTouchMove(c, y)
    \/ \E c \in Clients : handleTouchEnd(c)
    \/ \E c \in Clients : \E f \in fetches[c] : fetchTasks(c, f)
    \/ \E c \in Clients : refreshTimeout(c)

SpecPull == InitTasks /\ [][NextPull]_vars

----------------------------------------------------------------------------
(* App: the session effect, the logout and the screen that is rendered *)

AppStep(op, c, value) ==
    [op |-> op, c |-> c, row |-> [session |-> value], before |-> <<>>]

\* what App renders
Screen(c) ==
    IF loading[c] THEN "Loading"
    ELSE IF session[c] = NoSession THEN "Auth"
    ELSE "MainLayout"

\* App has just mounted: its effect has called getSession(), which has read
\* the stored session, and has subscribed to the auth state changes
InitApp ==
    /\ dbTasks = {}
    /\ nextTaskId = 1
    /\ dbRooms = {}
    /\ roomUsers = {}
    /\ nextRoomId = 1
    /\ userId = [c \in Clients |-> IF c = 1 THEN "u1" ELSE "u2"]
    /\ selectedRoomId = [c \in Clients |-> NoRoom]
    /\ rooms = [c \in Clients |-> <<>>]
    /\ roomUi = [c \in Clients |-> IdleUi]
    /\ joinPend = [c \in Clients |-> NoJoin]
    /\ roomFetches = [c \in Clients |-> {}]
    /\ activeTab = [c \in Clients |-> "active"]
    /\ tasks = [c \in Clients |-> <<>>]
    /\ notifs = [c \in Clients |-> <<>>]
    /\ fetches = [c \in Clients |-> {}]
    /\ resps = [c \in Clients |-> {}]
    /\ session = [c \in Clients |-> NoSession]
    /\ loading = [c \in Clients |-> TRUE]
    /\ \E stored \in [Clients -> BOOLEAN] :
          auth = [c \in Clients |->
                    LET current == IF stored[c] THEN userId[c] ELSE NoSession
                    IN AuthClient(current, {current}, <<>>)]
    /\ TodoListIdle
    /\ ops = 0
    /\ retired = {}
    /\ last = NoStep

\* supabase.auth.getSession().then(...): setSession(session); setLoading(false)
getSessionThen(c, result) ==
    /\ result \in auth[c].getSession
    /\ auth' = [auth EXCEPT ![c].getSession = @ \ {result}]
    /\ session' = [session EXCEPT ![c] = result]
    /\ loading' = [loading EXCEPT ![c] = FALSE]
    /\ last' = AppStep("getSessionThen", c, result)
    /\ UNCHANGED <<serverVars, userId, selectedRoomId, roomVars, taskVars, addVars,
                   pullVars, ops>>

\* the callback given to supabase.auth.onAuthStateChange: setSession(session)
onAuthStateChange(c) ==
    /\ auth[c].events # <<>>
    /\ auth' = [auth EXCEPT ![c].events = Tail(@)]
    /\ session' = [session EXCEPT ![c] = Head(auth[c].events)]
    /\ last' = AppStep("onAuthStateChange", c, Head(auth[c].events))
    /\ UNCHANGED <<serverVars, userId, selectedRoomId, roomVars, taskVars, addVars,
                   pullVars, loading, ops>>

\* the auth client moves to a new session and announces it to its subscriber
Announce(a, next) ==
    [a EXCEPT !.current = next, !.events = Append(@, next)]

\* the Auth screen signs the user in
signIn(c) ==
    /\ ops < MaxAuthOps
    /\ Screen(c) = "Auth"
    /\ auth[c].current = NoSession
    /\ auth' = [auth EXCEPT ![c] = Announce(@, userId[c])]
    /\ ops' = ops + 1
    /\ last' = AppStep("signIn", c, userId[c])
    /\ UNCHANGED <<serverVars, userId, selectedRoomId, roomVars, taskVars, addVars,
                   pullVars, session, loading>>

\* handleLogout, the onLogout of MainLayout: await supabase.auth.signOut();
\* failed is the outcome of the request, whose error the handler ignores
handleLogout(c, failed) ==
    /\ ops < MaxAuthOps
    /\ Screen(c) = "MainLayout"
    /\ auth' = [auth EXCEPT ![c] =
                  IF failed \/ @.current = NoSession THEN @ ELSE Announce(@, NoSession)]
    /\ ops' = ops + 1
    /\ last' = AppStep(IF failed THEN "handleLogoutFailed" ELSE "handleLogout", c, NoSession)
    /\ UNCHANGED <<serverVars, userId, selectedRoomId, roomVars, taskVars, addVars,
                   pullVars, session, loading>>

\* the session ends without this App instance asking for it (a sign-out in
\* another tab of the browser, a refresh token that was revoked): the
\* subscriber is told as for any other change
SignedOutElsewhere(c) ==
    /\ ops < MaxAuthOps
    /\ auth[c].current # NoSession
    /\ auth' = [auth EXCEPT ![c] = Announce(@, NoSession)]
    /\ ops' = ops + 1
    /\ last' = AppStep("SignedOutElsewhere", c, NoSession)
    /\ UNCHANGED <<serverVars, userId, selectedRoomId, roomVars, taskVars, addVars,
                   pullVars, session, loading>>

NextApp ==
    \/ \E c \in Clients : \E r \in auth[c].getSession : getSessionThen(c, r)
    \/ \E c \in Clients : onAuthStateChange(c)
    \/ \E c \in Clients : signIn(c)
    \/ \E c \in Clients, failed \in BOOLEAN : handleLogout(c, failed)
    \/ \E c \in Clients : SignedOutElsewhere(c)

SpecApp == InitApp /\ [][NextApp]_vars

\* nothing of the auth client is on its way to App any more
AuthSettled(c) == auth[c].getSession = {} /\ auth[c].events = <<>>

\* the room-to-room traffic has settled: nothing is in flight to any client
Quiescent ==
    \A c \in Clients : notifs[c] = <<>> /\ fetches[c] = {} /\ resps[c] = {}

\* the list with every row of the given id struck out, front to back
RECURSIVE Without(_, _)
Without(list, id) ==
    IF list = <<>> THEN <<>>
    ELSE IF Head(list).id = id THEN Without(Tail(list), id)
         ELSE <<Head(list)>> \o Without(Tail(list), id)

Shown(c, id) == id \in Ids(tasks[c])

----------------------------------------------------------------------------
(* Adding tasks under fair delivery *)

NextAdd ==
    \/ \E c \in Clients, s \in TaskInputs : handleAddTask(c, s, FALSE)
    \/ \E c \in Clients, t \in Tabs : setActiveTab(c, t)
    \/ \E c \in Clients : \E f \in fetches[c] : fetchTasks(c, f)
    \/ \E c \in Clients : Notify(c)

\* the task list while the user moves between the lists of the sidebar
NextSwitch ==
    \/ \E c \in Clients, i \in 1..2 : selectRoom(c, i)
    \/ \E c \in Clients : \E f \in roomFetches[c] : fetchMyRooms(c, f)
    \/ \E c \in Clients, s \in TaskInputs : handleAddTask(c, s, FALSE)
    \/ \E c \in Clients, t \in Tabs : setActiveTab(c, t)
    \/ \E c \in Clients : \E f \in fetches[c] : fetchTasks(c, f)
    \/ \E c \in Clients : Notify(c)

SpecSwitch == InitTasks /\ [][NextSwitch]_vars

\* the add form with every input and both outcomes of the insert
NextForm ==
    \/ \E c \in Clients, s \in AddInputs, failed \in BOOLEAN : handleAddTask(c, s, failed)
    \/ \E c \in Clients : \E f \in fetches[c] : fetchTasks(c, f)
    \/ \E c \in Clients : Notify(c)

SpecForm == InitTasks /\ [][NextForm]_vars

\* a subscribed client eventually runs its channel callback on every event
FairAdd ==
    /\ InitTasks
    /\ [][NextAdd]_vars
    /\ \A c \in Clients : WF_vars(Notify(c))

InsertPending(c, id) ==
    \E i \in DOMAIN notifs[c] :
        notifs[c][i].eventType = "INSERT" /\ notifs[c][i].row.id = id

\* the INSERT events still on their way to clients that are on the 'active' tab
Owed ==
    {<<c, id>> \in Clients \X (3..(2 + MaxOps)) :
        InsertPending(c, id) /\ activeTab[c] = "active"}

InsertLost ==
    /\ last.op = "INSERT"
    /\ activeTab[last.c] = "active"
    /\ ~Shown(last.c, last.row.id)

\* C1: the INSERT event of a task added by handleAddTask does not stay
\* pending for ever at a client that keeps the room open on the 'active' tab,
\* and when such a client (the adder included) processes it the task is in
\* the client's list: the added task eventually appears.
C1_AddedTaskAppears == []~InsertLost /\ <>[](Owed = {})

C1_Witness ==
    /\ last.op = "INSERT"
    /\ activeTab[last.c] = "active"
    /\ Shown(last.c, last.row.id)
    /\ ~(last.row.id \in Ids(last.before))
    /\ last.row.created_by # userId[last.c]
    /\ \E d \in Clients : d # last.c /\ userId[d] = last.row.created_by /\ Shown(d, last.row.id)

----------------------------------------------------------------------------
(* Properties of the task specification *)

\* C2: when the UPDATE event of a task that was marked completed has been
\* processed by a client that is on the 'completed' tab, the task is in that
\* client's list.
C2_CompletedTaskAppears ==
    (/\ last.op = "UPDATE"
     /\ last.row.is_completed
     /\ activeTab[last.c] = "completed")
        => Shown(last.c, last.row.id)

\* C3: when the UPDATE event of a task that was marked completed has been
\* processed by a client that is on the 'active' tab, the task is gone from
\* that client's list and the other rows are as they were, in the same order.
C3_CompletedTaskLeavesActive ==
    (/\ last.op = "UPDATE"
     /\ last.row.is_completed
     /\ activeTab[last.c] = "active")
        => /\ ~Shown(last.c, last.row.id)
           /\ tasks[last.c] = Without(last.before, last.row.id)

C3_Witness ==
    /\ last.op = "UPDATE"
    /\ last.row.is_completed
    /\ activeTab[last.c] = "active"
    /\ last.row.id \in Ids(last.before)
    /\ Len(last.before) >= 2
    /\ tasks[last.c] # <<>>

\* C4: once every write response and change notification has been processed
\* (nothing is in flight any more), the row an onUpdated callback has just
\* replaced shows the text the server stores for it: the optimistic
\* replacement does not leave the client behind the server's last write.
C4_TextsAgreeWhenQuiet ==
    (Quiescent /\ last.op = "onUpdated") =>
        \A i \in DOMAIN tasks[last.c] : \A r \in dbTasks :
            (r.id = last.row.id /\ tasks[last.c][i].id = last.row.id)
                => r.text = tasks[last.c][i].text

\* C5: processing a DELETE event or the onDeleted callback leaves no row
\* with the id, keeps every other row in place and order, and changes
\* nothing when the id is already gone.
C5_DeleteRemovesExactlyThat ==
    last.op \in {"DELETE", "onDeleted"} =>
        /\ ~Shown(last.c, last.row.id)
        /\ tasks[last.c] = Without(last.before, last.row.id)
        /\ (~(last.row.id \in Ids(last.before)) => tasks[last.c] = last.before)

\* the DELETE event after the onDeleted callback has already run (or the
\* other way round), on a list that still holds another row
C5_Witness ==
    /\ last.op = "DELETE"
    /\ ~(last.row.id \in Ids(last.before))
    /\ last.before # <<>>
    /\ \A r \in dbTasks : r.id # last.row.id
    /\ resps[last.c] = {}
    /\ userId[last.c] = "u1" /\ last.row.id = 1

\* C8: handleDelete runs for the task's creator only, and a row leaves the
\* tasks table only in a handleDelete step of its creator.
C8_OnlyCreatorDeletes ==
    [][/\ last'.op = "handleDelete" => last'.row.created_by = userId[last'.c]
       /\ \A r \in dbTasks :
            (\A q \in dbTasks' : q.id # r.id)
                => last'.op = "handleDelete" /\ userId[last'.c] = r.created_by]_vars

\* the creator has deleted a task that a client of another user had open
C8_Witness ==
    /\ last.op = "handleDelete"
    /\ \A r \in dbTasks : r.id # last.row.id
    /\ \E d \in Clients :
          /\ userId[d] # last.row.created_by
          /\ selectedRoomId[d] = last.row.room_id
          /\ Shown(d, last.row.id)

----------------------------------------------------------------------------
(* Properties of the room specification *)

EqualIgnoringCase(s, t) == ToLowerCase(s) = ToLowerCase(t)

\* C6: handleJoinRoom inserts a room_users row for a room, and selects the
\* room, only if the trimmed input equals the invite code the room had when
\* it was looked up, ignoring letter case.
C6_JoinOnlyByCode ==
    last.op = "JoinInsert" =>
        EqualIgnoringCase(last.row.input, last.row.code)

\* C7: a handleJoinRoom attempt made with an invite code that a successful
\* refresh has replaced fails with 'Invalid Invite Code.' and leads to no
\* membership, and a refresh leaves the memberships as they were.
C7_OldCodeStopsWorking ==
    /\ (/\ last.op \in {"handleJoinRoomFound", "handleJoinRoomInvalid"}
        /\ last.row.input \in retired)
          => /\ last.op = "handleJoinRoomInvalid"
             /\ roomUi[last.c].error = "Invalid Invite Code."
             /\ ~joinPend[last.c].active
    /\ last.op = "handleRefreshCode" => roomUsers = last.before

ManageOps == {"handleRefreshCode", "renameList", "deleteList"}

\* C9: the refresh, rename and delete actions run for the creator of the room
\* only, and a row of the rooms table changes its name or invite code, or
\* disappears, only in such a step of its creator.
C9_OnlyCreatorManages ==
    [][/\ last'.op \in ManageOps =>
            \A r \in dbRooms : r.id = last'.row.id => r.created_by = userId[last'.c]
       /\ \A r \in dbRooms :
            r \notin dbRooms' =>
                /\ last'.op \in ManageOps
                /\ last'.row.id = r.id
                /\ r.created_by = userId[last'.c]]_vars

\* the creator has changed the invite code of a room that a client of
\* another user has open
C9_Witness ==
    /\ last.op = "handleRefreshCode"
    /\ \E r \in dbRooms : r.id = last.row.id /\ r.invite_code = last.row.code
    /\ retired # {}
    /\ \E d \in Clients :
          /\ userId[d] # userId[last.c]
          /\ selectedRoomId[d] = last.row.id
          /\ HasSelectedRoom(d)

\* C10: after fetchMyRooms every room of the sidebar is one the user created
\* or has a room_users row for.
C10_SidebarListsOwnRooms ==
    last.op = "fetchMyRooms" =>
        \A i \in DOMAIN rooms[last.c] :
            \/ rooms[last.c][i].created_by = userId[last.c]
            \/ <<rooms[last.c][i].id, userId[last.c]>> \in roomUsers

\* C11: a room leaves the rooms table only in a delete step in which the user
\* answered both confirmations with OK; after a successful delete the room and
\* every task of it are gone and the client's selection is cleared; after a
\* declined or failed delete the rooms, the tasks and the selection are as
\* they were.
C11_DeleteListConfirmed ==
    [][/\ \A r \in dbRooms :
            (\A q \in dbRooms' : q.id # r.id) =>
                /\ last'.op = "deleteList"
                /\ last'.row.id = r.id
                /\ last'.row.input = <<"ok", "ok">>
       /\ last'.op = "deleteList" =>
            /\ \A q \in dbRooms' : q.id # last'.row.id
            /\ \A t \in dbTasks' : t.room_id # last'.row.id
            /\ selectedRoomId[last'.c] = last'.row.id
            /\ selectedRoomId'[last'.c] = NoRoom
       /\ last'.op \in {"deleteListDeclined", "deleteListFailed"} =>
            /\ dbRooms' = dbRooms
            /\ dbTasks' = dbTasks
            /\ selectedRoomId' = selectedRoomId]_vars

\* the creator has deleted a list that held a task
C11_Witness ==
    /\ last.op = "deleteList"
    /\ last.row.id = 2
    /\ dbTasks = {}
    /\ \A r \in dbRooms : r.id # 2
    /\ selectedRoomId[last.c] = NoRoom

JoinSteps == {"handleJoinRoomEmpty", "handleJoinRoomInvalid", "handleJoinRoomFound"}

NoRoomMatches(input) ==
    /\ Trim(input) # <<>>
    /\ \A r \in dbRooms : ~ILike(r.invite_code, Trim(input))

\* C12: a handleJoinRoom call whose trimmed input matches the invite code of
\* no room ends with the error 'Invalid Invite Code.', with no room_users row
\* inserted and none about to be, with selectedRoomId and the rooms list as
\* they were, with the join form still open and holding the input, and with
\* loading false.
C12_InvalidCodeRejected ==
    [][(last'.op \in JoinSteps /\ NoRoomMatches(last'.row.input)) =>
            /\ last'.op = "handleJoinRoomInvalid"
            /\ roomUi'[last'.c].error = "Invalid Invite Code."
            /\ roomUsers' = roomUsers
            /\ ~joinPend'[last'.c].active
            /\ selectedRoomId' = selectedRoomId
            /\ rooms' = rooms
            /\ roomUi'[last'.c].showJoin
            /\ roomUi'[last'.c].inputValue = last'.row.input
            /\ ~roomUi'[last'.c].loading]_vars

\* a user has submitted a code that matches no room
C12_Witness ==
    /\ last.op = "handleJoinRoomInvalid"
    /\ NoRoomMatches(last.row.input)
    /\ Cardinality(dbRooms) = 2
    /\ roomUi[last.c].error = "Invalid Invite Code."

C14_ScreenFollowsAuth ==
    \A c \in Clients :
        (~loading[c] /\ AuthSettled(c)) =>
            /\ Screen(c) = "MainLayout" <=> auth[c].current # NoSession
            /\ Screen(c) = "Auth" <=> auth[c].current = NoSession

\* C15: handleAddTask inserts no task for an input that is empty after
\* trimming; the row it inserts has the trimmed input as text, the client's
\* room as room_id and the client's user as created_by; the input is empty
\* after a successful insert and is the typed text after a failed one (and
\* after the early return); addingTask is false after either outcome.
C15_AddTaskContract ==
    [][/\ \A r \in dbTasks' \ dbTasks :
            /\ last'.op = "handleAddTask"
            /\ r = last'.row
            /\ r.text = Trim(last'.before) /\ r.text # <<>>
            /\ r.room_id = selectedRoomId[last'.c]
            /\ r.created_by = userId[last'.c]
       /\ last'.op = "handleAddTask" =>
            /\ dbTasks' = dbTasks \cup {last'.row}
            /\ last'.row \notin dbTasks
            /\ newTaskText'[last'.c] = <<>>
            /\ ~addingTask'[last'.c]
       /\ last'.op = "handleAddTaskFailed" =>
            /\ dbTasks' = dbTasks
            /\ newTaskText'[last'.c] = last'.before
            /\ ~addingTask'[last'.c]
       /\ last'.op = "handleAddTaskEmpty" =>
            /\ Trim(last'.before) = <<>>
            /\ dbTasks' = dbTasks
            /\ newTaskText'[last'.c] = last'.before
            /\ ~addingTask'[last'.c]
       /\ (last'.op \in {"handleAddTask", "handleAddTaskFailed"}) =>
            Trim(last'.before) # <<>>]_vars

\* an insert has failed with text in the form, after an earlier one succeeded
C15_Witness ==
    /\ last.op = "handleAddTaskFailed"
    /\ newTaskText[last.c] = <<"d", " ">>
    /\ ~addingTask[last.c]
    /\ \E r \in dbTasks : r.id = 3 /\ r.text = <<"c">>

\* C16: when the last outstanding fetchTasks answer of a client has been
\* applied, every row of its list belongs to the tab the client is on: an
\* answer to a fetch issued for the tab selected before does not replace the
\* list of the current tab.
C16_ListFollowsTab ==
    (last.op = "fetchTasks" /\ fetches[last.c] = {}) =>
        \A i \in DOMAIN tasks[last.c] :
            tasks[last.c][i].is_completed = (activeTab[last.c] = "completed")

\* C17: once no fetchTasks answer of a client is outstanding, every row of
\* its list has the room_id of the room the client has selected: after a
\* switch from one room to another, a late answer or notification for the
\* first room does not put its tasks into the list shown for the second.
C17_ListFollowsRoom ==
    \A c \in Clients :
        (Rendered(selectedRoomId[c], rooms[c]) /\ fetches[c] = {}) =>
            \A i \in DOMAIN tasks[c] : tasks[c][i].room_id = selectedRoomId[c]

\* C18: pullProgress stays between 0 and 80; it leaves 0 only in a
\* handleTouchMove step whose touch is below the touch start, with the list
\* scrolled to the top and no refresh in progress; and after every
\* handleTouchEnd step pullProgress is 0 and isPulling is false.
C18_PullProgress ==
    [][/\ \A c \in Clients : pullProgress'[c] >= 0 /\ pullProgress'[c] <= 80
       /\ \A c \in Clients :
            (pullProgress[c] = 0 /\ pullProgress'[c] > 0) =>
                /\ last'.op = "handleTouchMove" /\ last'.c = c
                /\ touchStartRef[c] # NoTouch
                /\ last'.row.clientY > touchStartRef[c]
                /\ scrollTop[c] = 0
                /\ ~isRefreshing[c]
       /\ last'.op = "handleTouchEnd" =>
            /\ pullProgress'[last'.c] = 0
            /\ ~isPulling'[last'.c]]_vars

====
